---- MODULE Spec2Model ----
(***************************************************************************)
(* Model of scripts/set_rtc_time.py: the post-upload action after_upload,  *)
(* which sends "SETTIME:<epoch>\n" to the freshly flashed device over its  *)
(* serial port.                                                            *)
(*                                                                         *)
(* Text is modelled as sequences of Unicode code points and bytes as       *)
(* sequences of integers 0..255, so that formatting, encoding, decoding    *)
(* and stripping are computed rather than assumed.  Time is a pair         *)
(* (seconds, half-seconds) because the code sleeps for 0.5 s.              *)
(*                                                                         *)
(* Fault model: each serial-port step the code performs inside its try     *)
(* block (open, write, flush, in_waiting, readline, decode) either         *)
(* succeeds or raises an exception of a class the library raises there.    *)
(***************************************************************************)
EXTENDS Integers, Sequences, FiniteSets, TLC

VARIABLES pc, upload_port, clock, epoch, ser, tx, flushed, rx, line,
          log, exc, events

vars == <<pc, upload_port, clock, epoch, ser, tx, flushed, rx, line,
          log, exc, events>>

-----------------------------------------------------------------------------
(* Bounds of the model *)

\* start-of-invocation clock values cover the seconds 0..MaxEpoch
MaxEpoch == 10
\* longest device reply, in bytes
MaxRespLen == 3

\* further start seconds: the spec's scenario value, the last second before
\* it, a leap day, the last second of a day
SpecialEpochs == {1700000000, 1699999999, 951782400, 86399}

Epochs == (0..MaxEpoch) \cup SpecialEpochs

\* bytes a device reply is made of: LF, space, 'O', the two bytes of
\* U+00A0 (0xC2 0xA0, each invalid alone), and 0xFF (never valid UTF-8)
RespAlphabet == {10, 32, 79, 194, 160, 255}

RECURSIVE SeqsUpTo(_, _)
SeqsUpTo(S, n) ==
    IF n = 0 THEN {<< >>}
    ELSE LET shorter == SeqsUpTo(S, n - 1)
         IN  shorter \cup {Append(s, b) : s \in shorter, b \in S}

Responses == SeqsUpTo(RespAlphabet, MaxRespLen)

\* values env.get("UPLOAD_PORT") can return: None (absent), "", a port name
PortValues == {[present |-> FALSE, value |-> ""],
               [present |-> TRUE,  value |-> ""],
               [present |-> TRUE,  value |-> "COM7"]}

-----------------------------------------------------------------------------
(* Program constants; durations are in half seconds *)

RebootDelay   == 6
SettleDelay   == 2
ResponseDelay == 1
Baudrate      == 115200
ReadTimeout   == 2

-----------------------------------------------------------------------------
(* Text, bytes and time: the library functions the code calls *)

\* str(n) for an int, as code points
RECURSIVE Decimal(_)
Decimal(n) ==
    IF n < 0 THEN <<45>> \o Decimal(0 - n)
    ELSE IF n < 10 THEN <<48 + n>>
    ELSE Decimal(n \div 10) \o <<48 + (n % 10)>>

\* the code points of "SETTIME:"
SetTimePrefix == <<83, 69, 84, 84, 73, 77, 69, 58>>

\* f"SETTIME:{epoch}\n"
FormatCommandNoNewline(e) == SetTimePrefix \o Decimal(e)
FormatCommand(e) == SetTimePrefix \o Decimal(e) \o <<10>>

\* str.encode(): UTF-8
EncodeChar(c) ==
    IF c < 128 THEN <<c>>
    ELSE IF c < 2048 THEN <<192 + (c \div 64), 128 + (c % 64)>>
    ELSE IF c < 65536
         THEN <<224 + (c \div 4096), 128 + ((c \div 64) % 64), 128 + (c % 64)>>
    ELSE <<240 + (c \div 262144), 128 + ((c \div 4096) % 64),
           128 + ((c \div 64) % 64), 128 + (c % 64)>>

RECURSIVE Encode(_)
Encode(s) == IF s = << >> THEN << >> ELSE EncodeChar(Head(s)) \o Encode(Tail(s))

IsCont(b) == b >= 128 /\ b <= 191

\* bytes.decode(): strict UTF-8; ok = FALSE stands for UnicodeDecodeError
RECURSIVE Decode(_)
Decode(b) ==
    IF b = << >> THEN [ok |-> TRUE, text |-> << >>]
    ELSE
      LET b1 == b[1]
          n  == Len(b)
          need == IF b1 < 128 THEN 1
                  ELSE IF b1 >= 194 /\ b1 <= 223 THEN 2
                  ELSE IF b1 >= 224 /\ b1 <= 239 THEN 3
                  ELSE IF b1 >= 240 /\ b1 <= 244 THEN 4
                  ELSE 0
          wellFormed ==
              /\ need > 0
              /\ n >= need
              /\ \A i \in 2..need : IsCont(b[i])
              /\ (b1 = 224 => b[2] >= 160)
              /\ (b1 = 237 => b[2] <= 159)
              /\ (b1 = 240 => b[2] >= 144)
              /\ (b1 = 244 => b[2] <= 143)
          cp == IF need = 1 THEN b1
                ELSE IF need = 2 THEN (b1 - 192) * 64 + (b[2] - 128)
                ELSE IF need = 3
                     THEN (b1 - 224) * 4096 + (b[2] - 128) * 64 + (b[3] - 128)
                ELSE (b1 - 240) * 262144 + (b[2] - 128) * 4096
                     + (b[3] - 128) * 64 + (b[4] - 128)
      IN  IF ~wellFormed THEN [ok |-> FALSE, text |-> << >>]
          ELSE LET rest == Decode(SubSeq(b, need + 1, n))
               IN  IF rest.ok THEN [ok |-> TRUE, text |-> <<cp>> \o rest.text]
                   ELSE rest

\* str.isspace() for one code point
IsSpace(c) ==
    \/ c \in 9..13
    \/ c \in 28..32
    \/ c \in {133, 160, 5760, 8232, 8233, 8239, 8287, 12288}
    \/ c \in 8192..8202

RECURSIVE LStrip(_)
LStrip(s) == IF s # << >> /\ IsSpace(Head(s)) THEN LStrip(Tail(s)) ELSE s

RECURSIVE RStrip(_)
RStrip(s) ==
    IF s # << >> /\ IsSpace(s[Len(s)]) THEN RStrip(SubSeq(s, 1, Len(s) - 1)) ELSE s

\* str.strip()
Strip(s) == RStrip(LStrip(s))

\* time.gmtime(epoch) as rendered by '%Y-%m-%d %H:%M:%S UTC':
\* <<year, month, day, hour, minute, second>>
GmTime(e) ==
    LET days == e \div 86400
        secs == e % 86400
        z    == days + 719468
        era  == z \div 146097
        doe  == z - era * 146097
        yoe  == (doe - doe \div 1460 + doe \div 36524 - doe \div 146096) \div 365
        doy  == doe - (365 * yoe + yoe \div 4 - yoe \div 100)
        mp   == (5 * doy + 2) \div 153
        d    == doy - (153 * mp + 2) \div 5 + 1
        m    == IF mp < 10 THEN mp + 3 ELSE mp - 9
        y    == yoe + era * 400 + (IF m <= 2 THEN 1 ELSE 0)
    IN  <<y, m, d, secs \div 3600, (secs \div 60) % 60, secs % 60>>

\* int(time.time())
Now == clock.sec

\* the clock after a sleep of h half seconds
Advance(c, h) ==
    LET t == c.half + h
    IN  [sec |-> c.sec + t \div 2, half |-> t % 2]

\* bytes up to and including the first LF; all of them when there is none
\* (the read timeout expires)
RECURSIVE FirstLine(_)
FirstLine(b) ==
    IF b = << >> THEN << >>
    ELSE IF Head(b) = 10 THEN <<10>>
    ELSE <<Head(b)>> \o FirstLine(Tail(b))

-----------------------------------------------------------------------------
(* Exceptions *)

NoExc == [cls |-> "", desc |-> ""]

\* the direct base class of each exception class the port steps raise
BaseOf(c) ==
    CASE c = "SerialTimeoutException" -> "SerialException"
      [] c = "SerialException"        -> "OSError"
      [] c = "PermissionError"        -> "OSError"
      [] c = "OSError"                -> "Exception"
      [] c = "UnicodeDecodeError"     -> "ValueError"
      [] c = "ValueError"             -> "Exception"
      [] c = "Exception"              -> "BaseException"
      [] OTHER                        -> ""

RECURSIVE IsSubclass(_, _)
IsSubclass(c, base) ==
    IF c = base THEN TRUE
    ELSE IF c = "" THEN FALSE
    ELSE IsSubclass(BaseOf(c), base)

\* "except serial.SerialException as e"
CatchesSerialOnly(e) == IsSubclass(e.cls, "SerialException")
\* "except Exception as e"
Catches(e) == IsSubclass(e.cls, "Exception")

OpenErrors ==
    {[cls |-> "SerialException", desc |-> "could not open port"],
     [cls |-> "PermissionError", desc |-> "Permission denied"]}
WriteErrors ==
    {[cls |-> "SerialException", desc |-> "write failed"],
     [cls |-> "SerialTimeoutException", desc |-> "Write timeout"]}
FlushErrors == {[cls |-> "OSError", desc |-> "Input/output error"]}
InWaitingErrors == {[cls |-> "OSError", desc |-> "Device not configured"]}
ReadErrors ==
    {[cls |-> "SerialException", desc |-> "device reports readiness to read but returned no data"]}
DecodeError ==
    [cls |-> "UnicodeDecodeError", desc |-> "'utf-8' codec can't decode byte"]

-----------------------------------------------------------------------------
(* State *)

Unbound == [bound |-> FALSE, port |-> "", baudrate |-> 0, timeout |-> 0,
            is_open |-> FALSE]

\* "if not upload_port": None and "" are falsy
TruthyUnlessNone(v) == v.present
Truthy(v) == v.present /\ v.value # ""

Ev(op, arg) == [op |-> op, arg |-> arg]

LogLine(fmt, arg) == [fmt |-> fmt, arg |-> arg]

Init ==
    /\ pc = "idle"
    /\ upload_port = [present |-> FALSE, value |-> ""]
    /\ clock \in {[sec |-> e, half |-> h] : e \in Epochs, h \in {0, 1}}
    /\ epoch = << >>
    /\ ser = Unbound
    /\ tx = << >>
    /\ flushed = FALSE
    /\ rx = << >>
    /\ line = << >>
    /\ log = << >>
    /\ exc = NoExc
    /\ events = << >>

\* a step that completes
Step(op, arg, next) ==
    /\ pc' = next
    /\ events' = Append(events, Ev(op, arg))

\* a step that raises: control transfers to the except clause
Raise(op, arg, e) ==
    /\ pc' = "except"
    /\ exc' = e
    /\ events' = events \o <<Ev(op, arg), Ev("raise", << >>)>>

-----------------------------------------------------------------------------
(* after_upload, one action per statement *)

\* the build tool calls after_upload; upload_port = env.get("UPLOAD_PORT")
Invoke ==
    /\ pc = "idle"
    /\ \E p \in PortValues : upload_port' = p
    /\ pc' = "check_port"
    /\ UNCHANGED <<clock, epoch, ser, tx, flushed, rx, line, log, exc, events>>

\* if not upload_port: return
SkipNoPort ==
    /\ pc = "check_port"
    /\ ~Truthy(upload_port)
    /\ pc' = "returned"
    /\ UNCHANGED <<upload_port, clock, epoch, ser, tx, flushed, rx, line, log,
                   exc, events>>

\* epoch = int(time.time())
CaptureEpoch ==
    /\ pc = "check_port"
    /\ Truthy(upload_port)
    /\ epoch' = <<Now>>
    /\ Step("capture", << >>, "log_time")
    /\ UNCHANGED <<upload_port, clock, ser, tx, flushed, rx, line, log, exc>>

\* print(f"\n[RTC] Setting to system time: {time.strftime(...)}")
LogTime ==
    /\ pc = "log_time"
    /\ log' = Append(log, LogLine("[RTC] Setting to system time: ", GmTime(epoch[1])))
    /\ Step("log_time", << >>, "sleep_reboot")
    /\ UNCHANGED <<upload_port, clock, epoch, ser, tx, flushed, rx, line, exc>>

\* time.sleep(3)
SleepReboot ==
    /\ pc = "sleep_reboot"
    /\ clock' = Advance(clock, RebootDelay)
    /\ Step("sleep", <<RebootDelay>>, "open")
    /\ UNCHANGED <<upload_port, epoch, ser, tx, flushed, rx, line, log, exc>>

\* the open with the settle pause left out
OpenPortNoSettle ==
    /\ pc = "open"
    /\ ser' = [bound |-> TRUE, port |-> upload_port.value,
               baudrate |-> Baudrate, timeout |-> ReadTimeout, is_open |-> TRUE]
    /\ Step("open", << >>, "write")
    /\ UNCHANGED <<upload_port, clock, epoch, tx, flushed, rx, line, log, exc>>

\* ser = serial.Serial(upload_port, 115200, timeout=2)
OpenPort ==
    /\ pc = "open"
    /\ ser' = [bound |-> TRUE, port |-> upload_port.value,
               baudrate |-> Baudrate, timeout |-> ReadTimeout, is_open |-> TRUE]
    /\ Step("open", << >>, "sleep_settle")
    /\ UNCHANGED <<upload_port, clock, epoch, tx, flushed, rx, line, log, exc>>

OpenPortFails ==
    /\ pc = "open"
    /\ \E e \in OpenErrors : Raise("open", << >>, e)
    /\ UNCHANGED <<upload_port, clock, epoch, ser, tx, flushed, rx, line, log>>

\* time.sleep(1)
SleepSettle ==
    /\ pc = "sleep_settle"
    /\ clock' = Advance(clock, SettleDelay)
    /\ Step("sleep", <<SettleDelay>>, "write")
    /\ UNCHANGED <<upload_port, epoch, ser, tx, flushed, rx, line, log, exc>>

\* the text the write statement formats
CommandReread == FormatCommand(Now)
Command == FormatCommand(epoch[1])

\* ser.write(f"SETTIME:{epoch}\n".encode())
WriteCommand ==
    /\ pc = "write"
    /\ tx' = tx \o Encode(Command)
    /\ Step("write", << >>, "flush")
    /\ UNCHANGED <<upload_port, clock, epoch, ser, flushed, rx, line, log, exc>>

\* the write raises after sending none or only some of the bytes
WriteCommandFails ==
    /\ pc = "write"
    /\ \E k \in 0..(Len(Encode(Command)) - 1) :
          tx' = tx \o SubSeq(Encode(Command), 1, k)
    /\ \E e \in WriteErrors : Raise("write", << >>, e)
    /\ UNCHANGED <<upload_port, clock, epoch, ser, flushed, rx, line, log>>

\* ser.flush()
Flush ==
    /\ pc = "flush"
    /\ flushed' = TRUE
    /\ Step("flush", << >>, "sleep_response")
    /\ UNCHANGED <<upload_port, clock, epoch, ser, tx, rx, line, log, exc>>

FlushFails ==
    /\ pc = "flush"
    /\ \E e \in FlushErrors : Raise("flush", << >>, e)
    /\ UNCHANGED <<upload_port, clock, epoch, ser, tx, flushed, rx, line, log>>

\* time.sleep(0.5); meanwhile the device may have replied
SleepResponse ==
    /\ pc = "sleep_response"
    /\ clock' = Advance(clock, ResponseDelay)
    /\ \E r \in Responses : rx' = r
    /\ Step("sleep", <<ResponseDelay>>, "in_waiting")
    /\ UNCHANGED <<upload_port, epoch, ser, tx, flushed, line, log, exc>>

\* the branch taken on the value n of ser.in_waiting
InWaitingBranchAlways(n) == "readline"
InWaitingBranch(n) == IF n # 0 THEN "readline" ELSE "close"

\* if ser.in_waiting:
CheckInWaiting ==
    /\ pc = "in_waiting"
    /\ Step("in_waiting", << >>, InWaitingBranch(Len(rx)))
    /\ UNCHANGED <<upload_port, clock, epoch, ser, tx, flushed, rx, line, log, exc>>

CheckInWaitingFails ==
    /\ pc = "in_waiting"
    /\ \E e \in InWaitingErrors : Raise("in_waiting", << >>, e)
    /\ UNCHANGED <<upload_port, clock, epoch, ser, tx, flushed, rx, line, log>>

\* ser.readline()
ReadLine ==
    /\ pc = "readline"
    /\ line' = FirstLine(rx)
    /\ rx' = SubSeq(rx, Len(FirstLine(rx)) + 1, Len(rx))
    /\ Step("readline", << >>, "decode")
    /\ UNCHANGED <<upload_port, clock, epoch, ser, tx, flushed, log, exc>>

ReadLineFails ==
    /\ pc = "readline"
    /\ \E e \in ReadErrors : Raise("readline", << >>, e)
    /\ UNCHANGED <<upload_port, clock, epoch, ser, tx, flushed, rx, line, log>>

\* the text of the response line: .decode().strip()
ResponseTextLStripOnly(b) == LStrip(Decode(b).text)
ResponseText(b) == Strip(Decode(b).text)

\* print(f"[RTC] {<line>.decode().strip()}")
LogResponse ==
    /\ pc = "decode"
    /\ Decode(line).ok
    /\ log' = Append(log, LogLine("[RTC] ", ResponseText(line)))
    /\ Step("log_response", << >>, "close")
    /\ UNCHANGED <<upload_port, clock, epoch, ser, tx, flushed, rx, line, exc>>

\* .decode() raises UnicodeDecodeError
DecodeFails ==
    /\ pc = "decode"
    /\ ~Decode(line).ok
    /\ Raise("decode", << >>, DecodeError)
    /\ UNCHANGED <<upload_port, clock, epoch, ser, tx, flushed, rx, line, log>>

\* "ser.close" without the call
ClosePortNotCalled ==
    /\ pc = "close"
    /\ ser' = ser
    /\ Step("close", << >>, "log_done")
    /\ UNCHANGED <<upload_port, clock, epoch, tx, flushed, rx, line, log, exc>>

\* ser.close()
ClosePort ==
    /\ pc = "close"
    /\ ser' = [ser EXCEPT !.is_open = FALSE]
    /\ Step("close", << >>, "log_done")
    /\ UNCHANGED <<upload_port, clock, epoch, tx, flushed, rx, line, log, exc>>

\* print("[RTC] Done\n")
LogDone ==
    /\ pc = "log_done"
    /\ log' = Append(log, LogLine("[RTC] Done", << >>))
    /\ Step("log_done", << >>, "returned")
    /\ UNCHANGED <<upload_port, clock, epoch, ser, tx, flushed, rx, line, exc>>

\* The handle when the frame that holds "ser" is released without close()
\* having been called: the code does nothing with it; whether the
\* interpreter finalizes (and so closes) the unreferenced object at that
\* moment depends on the interpreter.
ReleaseLocals(s) ==
    IF s.bound /\ s.is_open THEN {s, [s EXCEPT !.is_open = FALSE]} ELSE {s}

\* a handler that tries the open a second time
ExceptRetries ==
    /\ pc = "except"
    /\ IF Len(events) < 8
       THEN /\ log' = log
            /\ ser' = ser
            /\ Step("retry", << >>, "open")
       ELSE /\ log' = Append(log, LogLine("[RTC] Failed: ", exc.desc))
            /\ ser' \in ReleaseLocals(ser)
            /\ Step("log_failed", << >>, "returned")
    /\ UNCHANGED <<upload_port, clock, epoch, tx, flushed, rx, line, exc>>

\* except Exception as e: print(f"[RTC] Failed: {e}\n")
\* an exception the clause does not catch propagates to the caller
Except ==
    /\ pc = "except"
    /\ IF Catches(exc)
       THEN /\ log' = Append(log, LogLine("[RTC] Failed: ", exc.desc))
            /\ Step("log_failed", << >>, "returned")
       ELSE /\ log' = log
            /\ Step("propagate", << >>, "propagated")
    /\ ser' \in ReleaseLocals(ser)
    /\ UNCHANGED <<upload_port, clock, epoch, tx, flushed, rx, line, exc>>

Next ==
    \/ Invoke
    \/ SkipNoPort
    \/ CaptureEpoch
    \/ LogTime
    \/ SleepReboot
    \/ OpenPort
    \/ OpenPortFails
    \/ SleepSettle
    \/ WriteCommand
    \/ WriteCommandFails
    \/ Flush
    \/ FlushFails
    \/ SleepResponse
    \/ CheckInWaiting
    \/ CheckInWaitingFails
    \/ ReadLine
    \/ ReadLineFails
    \/ LogResponse
    \/ DecodeFails
    \/ ClosePort
    \/ LogDone
    \/ Except

Spec == Init /\ [][Next]_vars

-----------------------------------------------------------------------------
(* Vocabulary of the properties *)

Count(op) == Cardinality({i \in DOMAIN events : events[i].op = op})
Has(op) == Count(op) > 0

\* the step op was performed and did not raise
Succeeded(op) ==
    \E i \in DOMAIN events :
        /\ events[i].op = op
        /\ (i = Len(events) \/ events[i + 1].op # "raise")

Finished == pc \in {"returned", "propagated"}

Lines(fmt) == {i \in DOMAIN log : log[i].fmt = fmt}
DoneLogged == Lines("[RTC] Done") # {}
FailedLogged == Lines("[RTC] Failed: ") # {}

PortOps == {"open", "write", "flush", "in_waiting", "readline", "close"}

\* the value of a string of decimal digits
RECURSIVE DigitsValue(_)
DigitsValue(d) ==
    IF d = << >> THEN 0
    ELSE 10 * DigitsValue(SubSeq(d, 1, Len(d) - 1)) + (d[Len(d)] - 48)

\* calendar.timegm: the epoch second of <<year, month, day, hour, min, sec>>
TimeGm(t) ==
    LET y   == IF t[2] <= 2 THEN t[1] - 1 ELSE t[1]
        era == y \div 400
        yoe == y - era * 400
        mp  == IF t[2] > 2 THEN t[2] - 3 ELSE t[2] + 9
        doy == (153 * mp + 2) \div 5 + t[3] - 1
        doe == yoe * 365 + yoe \div 4 - yoe \div 100 + doy
    IN  (era * 146097 + doe - 719468) * 86400 + t[4] * 3600 + t[5] * 60 + t[6]

\* the digits between "SETTIME:" and the final byte of what was sent
SentDigits == SubSeq(tx, 9, Len(tx) - 1)

-----------------------------------------------------------------------------
(* C1 *)

\* C1: whenever after_upload has ended and its open of the serial port had
\* succeeded, the port is closed, whichever step raised in between.
C1_PortClosedOnEveryExit ==
    (Finished /\ Succeeded("open")) => ~ser.is_open

-----------------------------------------------------------------------------
(* C2 *)

\* C2: with UPLOAD_PORT absent or empty the procedure returns normally having
\* opened no port, written nothing, slept not at all and logged nothing.
C2_NoPortIsNoOp ==
    (pc # "idle" /\ (~upload_port.present \/ upload_port.value = ""))
        => /\ pc \in {"check_port", "returned"}
           /\ events = << >>
           /\ log = << >>
           /\ ~ser.bound
           /\ tx = << >>
           /\ exc = NoExc

C2_Witness ==
    /\ pc = "returned"
    /\ upload_port.present
    /\ upload_port.value = ""

-----------------------------------------------------------------------------
(* C3 *)

\* C3: no exception raised by the open, write, flush, response check,
\* readline or decode leaves after_upload: the procedure returns, having
\* logged exactly one failure line, which carries the exception's description.
C3_ExceptionsCaughtAndLogged ==
    /\ pc # "propagated"
    /\ (pc = "returned" /\ Has("raise"))
          => /\ Cardinality(Lines("[RTC] Failed: ")) = 1
             /\ exc # NoExc
             /\ \A i \in Lines("[RTC] Failed: ") : log[i].arg = exc.desc

C3_Witness ==
    /\ pc = "returned"
    /\ exc.cls = "UnicodeDecodeError"
    /\ Has("decode")
    /\ FailedLogged

-----------------------------------------------------------------------------
(* C4 *)

\* C4: once the write has succeeded, the bytes sent are "SETTIME:", then the
\* captured epoch in decimal (digits only, no leading zero), then one
\* newline, and nothing else; for epoch 1700000000 they are exactly
\* SETTIME:1700000000\n.
C4_CommandBytes ==
    Succeeded("write") =>
        /\ Len(tx) >= 10
        /\ SubSeq(tx, 1, 8) = <<83, 69, 84, 84, 73, 77, 69, 58>>
        /\ tx[Len(tx)] = 10
        /\ \A i \in DOMAIN SentDigits : SentDigits[i] \in 48..57
        /\ (Len(SentDigits) > 1 => SentDigits[1] # 48)
        /\ DigitsValue(SentDigits) = epoch[1]
        /\ (epoch[1] = 1700000000 =>
               tx = <<83, 69, 84, 84, 73, 77, 69, 58,
                      49, 55, 48, 48, 48, 48, 48, 48, 48, 48, 10>>)

C4_Witness ==
    /\ Succeeded("write")
    /\ upload_port.value = "COM7"
    /\ epoch = <<1700000000>>
    /\ Len(tx) = 19

-----------------------------------------------------------------------------
(* C5 *)

\* the response check was passed with no byte available: no byte is left in
\* the buffer and none was taken out of it
NoReplyAtCheck == Succeeded("in_waiting") /\ rx = << >> /\ line = << >>

\* C5: when the response check finds no byte available, nothing is read, no
\* response line is logged, and the procedure goes on to close the port, log
\* the completion marker and return.
C5_NoReplyStillCompletes ==
    NoReplyAtCheck =>
        /\ ~Has("readline")
        /\ Lines("[RTC] ") = {}
        /\ ~Has("raise")
        /\ pc \in {"close", "log_done", "returned"}
        /\ (pc = "returned" =>
               /\ ~ser.is_open
               /\ Count("close") = 1
               /\ log[Len(log)].fmt = "[RTC] Done")

C5_Witness ==
    /\ NoReplyAtCheck
    /\ pc = "returned"
    /\ DoneLogged

-----------------------------------------------------------------------------
(* C6 *)

\* C6: when bytes are available one line is read (the bytes through the first
\* newline), and the response text logged is that line decoded, less its
\* leading and trailing whitespace and otherwise unchanged; whatever the
\* text, the run then completes: the response is not checked against the
\* command.
C6_ResponseDecodedAndStripped ==
    Has("log_response") =>
        /\ Count("readline") = 1
        /\ \A i \in 1..(Len(line) - 1) : line[i] # 10
        /\ (line[Len(line)] # 10 => rx = << >>)
        /\ Cardinality(Lines("[RTC] ")) = 1
        /\ \A k \in Lines("[RTC] ") :
             LET text == log[k].arg
             IN  \E pre \in 0..Len(line) : \E post \in 0..Len(line) :
                   LET d == Decode(line).text
                   IN
                     /\ Encode(d) = line
                     /\ Len(d) = pre + Len(text) + post
                     /\ text = SubSeq(d, pre + 1, pre + Len(text))
                     /\ \A i \in 1..pre : IsSpace(d[i])
                     /\ \A i \in (Len(d) - post + 1)..Len(d) : IsSpace(d[i])
                     /\ (text # << >> =>
                           ~IsSpace(text[1]) /\ ~IsSpace(text[Len(text)]))
        /\ ~Has("raise")
        /\ (pc = "returned" => DoneLogged /\ ~FailedLogged)

C6_Witness ==
    /\ pc = "returned"
    /\ line = <<32, 79, 10>>
    /\ \E k \in Lines("[RTC] ") : log[k].arg = <<79>>

-----------------------------------------------------------------------------
(* C7 *)

\* C7: the completion marker is logged only after the port was opened, the
\* command written and flushed and the port closed, with no exception; and a
\* run that was not skipped ends with exactly one of the completion marker
\* and the failure line.
C7_DoneXorFailed ==
    /\ DoneLogged =>
          /\ Succeeded("open") /\ Succeeded("write")
          /\ Succeeded("flush") /\ Succeeded("close")
          /\ flushed
          /\ ser.bound /\ ~ser.is_open
          /\ ~Has("raise")
          /\ exc = NoExc
    /\ (Finished /\ Has("capture")) =>
          /\ Cardinality(Lines("[RTC] Done")) + Cardinality(Lines("[RTC] Failed: ")) = 1
          /\ DoneLogged = ~FailedLogged

C7_Witness ==
    /\ pc = "returned"
    /\ DoneLogged
    /\ ~ser.is_open

-----------------------------------------------------------------------------
(* C8 *)

\* the events the claim orders (the response check, the handler's own steps
\* and the raise marker are left out)
Ordered == {"capture", "log_time", "sleep", "open", "write", "flush",
            "readline", "log_response", "close", "log_done"}

RECURSIVE Project(_)
Project(evs) ==
    IF evs = << >> THEN << >>
    ELSE IF Head(evs).op \in Ordered THEN <<Head(evs)>> \o Project(Tail(evs))
    ELSE Project(Tail(evs))

CanonHead ==
    <<[op |-> "capture", arg |-> << >>], [op |-> "log_time", arg |-> << >>],
      [op |-> "sleep", arg |-> <<6>>], [op |-> "open", arg |-> << >>],
      [op |-> "sleep", arg |-> <<2>>], [op |-> "write", arg |-> << >>],
      [op |-> "flush", arg |-> << >>], [op |-> "sleep", arg |-> <<1>>]>>
CanonRead ==
    <<[op |-> "readline", arg |-> << >>], [op |-> "log_response", arg |-> << >>]>>
CanonTail ==
    <<[op |-> "close", arg |-> << >>], [op |-> "log_done", arg |-> << >>]>>

IsPrefix(a, b) == Len(a) <= Len(b) /\ a = SubSeq(b, 1, Len(a))

\* C8: the observable events of a run that was not skipped form an initial
\* part of: capture, log time, pause 3 s, open (115200 baud, timeout 2),
\* pause 1 s, write, flush, pause 0.5 s, [readline, log response], close,
\* log completion; a run that logs completion shows all of them.
C8_FixedOrder ==
    /\ \/ IsPrefix(Project(events), CanonHead \o CanonRead \o CanonTail)
       \/ IsPrefix(Project(events), CanonHead \o CanonTail)
    /\ Succeeded("open") =>
          /\ ser.port = upload_port.value
          /\ ser.baudrate = 115200
          /\ ser.timeout = 2
    /\ DoneLogged =>
          Project(events) \in {CanonHead \o CanonRead \o CanonTail,
                               CanonHead \o CanonTail}

C8_Witness ==
    /\ pc = "returned"
    /\ Project(events) = CanonHead \o CanonRead \o CanonTail

-----------------------------------------------------------------------------
(* C9 *)

\* C9: in one invocation the port is opened at most once, the command is
\* written at most once, at most one line is read, and no port operation
\* follows the first exception.
C9_NoRetries ==
    /\ Count("open") <= 1
    /\ Count("write") <= 1
    /\ Count("readline") <= 1
    /\ Count("raise") <= 1
    /\ \A i \in DOMAIN events : \A j \in DOMAIN events :
          (events[i].op = "raise" /\ j > i) => events[j].op \notin PortOps

C9_Witness ==
    /\ pc = "returned"
    /\ Has("raise")
    /\ Count("open") = 1
    /\ Count("write") = 1
    /\ FailedLogged

-----------------------------------------------------------------------------
(* C10 *)

\* C10: the epoch is captured once, as the first step and before any pause;
\* the epoch sent in the command is the one the UTC log line shows, although
\* the clock has moved on by at least the 4 s of pauses when it is written.
C10_EpochCapturedOnce ==
    /\ Count("capture") <= 1
    /\ (Has("sleep") => events[1].op = "capture")
    /\ Succeeded("write") =>
          /\ log[1].fmt = "[RTC] Setting to system time: "
          /\ DigitsValue(SentDigits) = TimeGm(log[1].arg)
          /\ DigitsValue(SentDigits) + 4 <= Now

C10_Witness ==
    /\ Succeeded("write")
    /\ epoch = <<1699999999>>
    /\ log[1].arg = <<2023, 11, 14, 22, 13, 19>>
    /\ Now > 1699999999

====
